---- MODULE Spec2Model ----
(***************************************************************************)
(* LunchLog: the visit ledger (UserRestaurantVisit / UserCuisineStat)     *)
(* maintained by the post_save signal of Receipt, the read projections    *)
(* over it and the recommendation service that fans out to the places     *)
(* gateway.                                                                *)
(*                                                                         *)
(* The database is PostgreSQL (settings/__init__.py:131-140) without       *)
(* ATOMIC_REQUESTS: a statement outside transaction.atomic() commits at    *)
(* once; inside it, an inserted row stays invisible to other transactions  *)
(* and a written row stays locked until the transaction ends (READ         *)
(* COMMITTED).  A table is a set of rows; a row carries its transaction    *)
(* state in st/by/old:                                                     *)
(*   st = "ok"   committed, untouched by a running transaction             *)
(*   st = "ins"  inserted by the running transaction of worker `by`        *)
(*   st = "upd"  updated by worker `by`; `old` is the committed count      *)
(* Only the Receipt fields the ledger reads are kept (user, restaurant);   *)
(* the visit date travels with the request.                                *)
(***************************************************************************)
EXTENDS Integers, Sequences, FiniteSets, TLC

None == "None"

Users == {"u1", "u2"}
Workers == {"w1", "w2"}
RestaurantIds == {"r1", "r2", "r3"}
\* Cuisine.Meta.ordering = ['name']: the cuisines in name order
CuisineList == <<"Italian", "Italian Restaurant", "Pizza", "Pizza Restaurant", "Restaurant">>
CuisineNames == {CuisineList[i] : i \in 1..Len(CuisineList)}

MaxReceipts == 3
MaxDay == 2
MaxEdits == 1
MaxLimit == 2

Days == 1..MaxDay

VARIABLES
    restaurants,  \* Restaurant table: id -> [place_id, name, address, latitude,
                  \*                         longitude, rating, cuisines]
    receipts,     \* Receipt table: set of [id, user, restaurant]
    visits,       \* UserRestaurantVisit table
    cstats,       \* UserCuisineStat table
    pc,           \* per worker: position in the request it serves
    req,          \* per worker: the request's locals
    today,        \* the server's current date (source of auto_now)
    nextRid,      \* next Receipt primary key
    edits,        \* number of receipt updates and deletions so far
    log,          \* history: per receipt id, what its creation did
    rec,          \* the recommendation response being returned
    gw,           \* the last call of a places gateway method and its outcome
    queue,        \* Celery broker: the task messages waiting to be run
    jobs,         \* per Celery worker: the task it runs and its locals
    runs,         \* history: the task runs that have ended, in order
    nextTid       \* number of the next task message

\* the state the web workers act on
webVars == <<restaurants, receipts, visits, cstats, pc, req, today, nextRid, edits, log, rec>>
\* the state of the Celery side and of the gateway
taskVars == <<queue, jobs, runs, nextTid>>

vars == <<restaurants, receipts, visits, cstats, pc, req, today, nextRid, edits, log, rec,
          gw, queue, jobs, runs, nextTid>>

----------------------------------------------------------------------------
(* Transactions over a table *)

\* rows a statement of worker w can see
Visible(T, w) == {x \in T : x.st # "ins" \/ x.by = w}

\* the count worker w reads from row x
VisibleCount(x, w) == IF x.st = "upd" /\ x.by # w THEN x.old ELSE x.visit_count

\* some row of `rows` is held by a running transaction other than w's
Blocked(rows, w) == \E x \in rows : x.st # "ok" /\ x.by # w

CommitRows(T, w) ==
    {IF x.by = w THEN [x EXCEPT !.st = "ok", !.by = None, !.old = 0] ELSE x : x \in T}

\* an exit from the transaction that keeps what it wrote
KeepRows(T, w) == CommitRows(T, w)

\* an exit from transaction.atomic() by an exception
RollbackRows(T, w) ==
    {IF x.by = w THEN [x EXCEPT !.visit_count = x.old, !.st = "ok", !.by = None, !.old = 0]
                 ELSE x : x \in {y \in T : ~(y.by = w /\ y.st = "ins")}}

\* the table as a reader outside any transaction sees it
Committed(T) ==
    {[x EXCEPT !.visit_count = IF x.st = "upd" THEN x.old ELSE x.visit_count,
               !.st = "ok", !.by = None, !.old = 0] : x \in {y \in T : y.st # "ins"}}

----------------------------------------------------------------------------
(* Models *)

\* the table without its uniqueness constraint
NoVisitConflicts(T, u, r) == {}

\* unique_together = ("user", "restaurant") / ("user", "cuisine")
VisitConflicts(T, u, r) == {x \in T : x.user = u /\ x.restaurant = r}
StatConflicts(T, u, c) == {x \in T : x.user = u /\ x.cuisine = c}

\* a lookup that forgets the user
VisitLookupAnyUser(T, u, r) == {x \in T : x.restaurant = r}

\* UserRestaurantVisit.objects.get(user=user, restaurant=restaurant)
VisitLookup(T, u, r) == {x \in T : x.user = u /\ x.restaurant = r}
\* UserCuisineStat.objects.get(user=user, cuisine=cuisine)
StatLookup(T, u, c) == {x \in T : x.user = u /\ x.cuisine = c}

\* last_visit = DateField(auto_now=True): set from the clock when the row is
\* saved with the field among the saved ones; the visit_date argument of
\* update_visit_stats is never read
NewVisit(w, rid, u, r, visit_date) ==
    [id |-> rid, user |-> u, restaurant |-> r, visit_count |-> 1,
     last_visit |-> today, st |-> "ins", by |-> w, old |-> 0]

NewStat(w, rid, u, c) ==
    [id |-> rid, user |-> u, cuisine |-> c, visit_count |-> 1,
     st |-> "ins", by |-> w, old |-> 0]

\* read-modify-write in the application: the loaded count plus one
StaleIncrement(dbCount, objCount) == objCount + 1

\* obj.visit_count = F("visit_count") + 1: computed by the database from the
\* row's current value, not from the value the object was loaded with
FIncrement(dbCount, objCount) == dbCount + 1

\* save(update_fields=["visit_count"]) leaves the auto_now field alone
SaveVisitCount(x, w, objCount) ==
    [x EXCEPT !.visit_count = FIncrement(x.visit_count, objCount),
              !.st = IF x.st = "ins" THEN "ins" ELSE "upd",
              !.by = w, !.old = IF x.st = "ins" THEN 0 ELSE x.visit_count]

\* the restaurants on record at the start; ratings in hundredths, {} for NULL
InitialRestaurant(r) ==
    CASE r = "r1" -> [place_id |-> "pA", name |-> "Roma", address |-> "Via Roma 1",
                      latitude |-> "41.9", longitude |-> "12.5", rating |-> {},
                      cuisines |-> {"Italian", "Pizza"}]
      [] r = "r2" -> [place_id |-> "pB", name |-> "Joe's", address |-> "7 Carmine St",
                      latitude |-> "40.7", longitude |-> "-74.0", rating |-> {420},
                      cuisines |-> {"Italian"}]
      [] r = "r3" -> [place_id |-> "pC", name |-> "Thames", address |-> "1 Strand",
                      latitude |-> "51.5", longitude |-> None, rating |-> {},
                      cuisines |-> {}]
      [] OTHER    -> [place_id |-> "pD", name |-> "Seine", address |-> "1 Rue de Rivoli",
                      latitude |-> "48.8", longitude |-> "2.3", rating |-> {},
                      cuisines |-> {}]

\* the tags the restaurant was first put on record with
CuisinesAtFirst(r) == SelectSeq(CuisineList, LAMBDA c : c \in InitialRestaurant(r).cuisines)

\* restaurant.cuisines.all(), in Cuisine's default ordering
CuisinesOf(r) == SelectSeq(CuisineList, LAMBDA c : c \in restaurants[r].cuisines)

----------------------------------------------------------------------------
(* Receipt post_save signal *)

\* a handler that does not look at the restaurant
SignalRunsWithoutRestaurant(created, restaurant) == created

\* a handler that does not look at `created`
SignalRunsOnEverySave(created, restaurant) == restaurant # None

\* if created and instance.restaurant:
SignalRuns(created, restaurant) == created /\ restaurant # None

\* a handler that lets the exception through
HandlerReraises(raised) == IF raised THEN "error" ELSE "created"

\* except Exception: logged, not re-raised
HandlerOutcome(raised) == "created"

IdleReq == [user |-> None, restaurant |-> None, date |-> 0, rid |-> 0,
            obj |-> [id |-> 0, visit_count |-> 0], todo |-> <<>>, enqueue |-> None]

NoRec == [user |-> None, kind |-> None, result |-> <<>>, calls |-> 0, error |-> FALSE,
          locations |-> <<>>, cuisines |-> <<>>, responses |-> <<>>, limit |-> 0]

\* no gateway call yet
NoCall == [op |-> None]

CeleryWorkers == {"c1", "c2"}

\* a Celery worker without a task
IdleJob == [pc |-> "idle"]

LedgerPcs == {"rv_get", "rv_create", "rv_incr", "cs_query", "cs_get", "cs_create", "cs_incr", "commit"}

Init ==
    /\ restaurants = [r \in RestaurantIds |->
          InitialRestaurant(r)]
    /\ receipts = {}
    /\ visits = {}
    /\ cstats = {}
    /\ pc = [w \in Workers |-> "idle"]
    /\ req = [w \in Workers |-> IdleReq]
    /\ today = 1
    /\ nextRid = 1
    /\ edits = 0
    /\ log = <<>>
    /\ rec = NoRec
    /\ gw = NoCall
    /\ queue = {}
    /\ jobs = [c \in CeleryWorkers |-> IdleJob]
    /\ runs = <<>>
    /\ nextTid = 1

\* enter update_visit_stats from the signal handler; enqueue is the restaurant
\* the caller of Receipt.objects.create enqueues afterwards, if any
StartLedgerFrom(w, rid, u, r, d, enqueue) ==
    /\ pc' = [pc EXCEPT ![w] = "rv_get"]
    /\ req' = [req EXCEPT ![w] = [IdleReq EXCEPT !.user = u, !.restaurant = r,
                                                 !.date = d, !.rid = rid,
                                                 !.enqueue = enqueue]]

StartLedger(w, rid, u, r, d) == StartLedgerFrom(w, rid, u, r, d, None)

\* Receipt.objects.create(user, restaurant, date, ...): INSERT, then post_save
InsertReceipt(w, u, r, d, enqueue) ==
    /\ pc[w] = "idle"
    /\ nextRid <= MaxReceipts
    /\ receipts' = receipts \cup {[id |-> nextRid, user |-> u, restaurant |-> r]}
    /\ nextRid' = nextRid + 1
    /\ IF SignalRuns(TRUE, r)
          THEN /\ StartLedgerFrom(w, nextRid, u, r, d, enqueue)
               /\ log' = Append(log, [user |-> u, restaurant |-> r, calls |-> 1,
                                      status |-> "running", failed |-> FALSE, ierr |-> FALSE,
                                      tags |-> {}])
          ELSE /\ UNCHANGED <<pc, req>>
               /\ log' = Append(log, [user |-> u, restaurant |-> r, calls |-> 0,
                                      status |-> "created", failed |-> FALSE, ierr |-> FALSE,
                                      tags |-> {}])
    /\ UNCHANGED <<rec, visits, cstats, today, edits>>

\* Receipt.objects.create called directly
CreateReceipt(w, u, r, d) == InsertReceipt(w, u, r, d, None) /\ UNCHANGED restaurants

\* receipt.save() of an existing receipt (ReceiptViewSet.update): UPDATE, then post_save
SaveReceipt(w, rid, r) ==
    /\ pc[w] = "idle"
    /\ edits < MaxEdits
    /\ \E x \in receipts :
          /\ x.id = rid
          /\ receipts' = (receipts \ {x}) \cup {[x EXCEPT !.restaurant = r]}
          /\ IF SignalRuns(FALSE, r)
                THEN /\ StartLedger(w, rid, x.user, r, today)
                     /\ log' = [log EXCEPT ![rid].calls = @ + 1, ![rid].status = "running"]
                ELSE UNCHANGED <<pc, req, log>>
    /\ edits' = edits + 1
    /\ UNCHANGED <<rec, restaurants, visits, cstats, today, nextRid>>

\* receipt.delete() (ReceiptViewSet.destroy): no receiver listens to it
DeleteReceipt(w, rid) ==
    /\ pc[w] = "idle"
    /\ edits < MaxEdits
    /\ \E x \in receipts : x.id = rid /\ receipts' = receipts \ {x}
    /\ edits' = edits + 1
    /\ UNCHANGED <<rec, restaurants, visits, cstats, pc, req, today, nextRid, log>>

----------------------------------------------------------------------------
(* update_visit_stats, one database statement per step *)

SetReq(w, r) == req' = [req EXCEPT ![w] = r]
Goto(w, l) == pc' = [pc EXCEPT ![w] = l]

\* the signal handler returns to the caller of Receipt.objects.create: the
\* serializer, which has a restaurant to enqueue, or a caller that is done
AfterSignal(w) ==
    /\ Goto(w, IF req[w].enqueue # None THEN "enqueue" ELSE "idle")
    /\ SetReq(w, [IdleReq EXCEPT !.enqueue = req[w].enqueue])

\* an exception leaves transaction.atomic(): the transaction is rolled back
\* and the exception reaches the handler's except clause
Fail(w) ==
    /\ visits' = RollbackRows(visits, w)
    /\ cstats' = RollbackRows(cstats, w)
    /\ log' = [log EXCEPT ![req[w].rid].failed = TRUE,
                          ![req[w].rid].status = HandlerOutcome(TRUE)]
    /\ AfterSignal(w)

\* get_or_create, the first get()
RvGet(w) ==
    /\ pc[w] = "rv_get"
    /\ LET found == VisitLookup(Visible(visits, w), req[w].user, req[w].restaurant) IN
          IF found = {}
             THEN Goto(w, "rv_create") /\ UNCHANGED <<req, visits, cstats, log>>
          ELSE IF Cardinality(found) > 1
             THEN Fail(w)
          ELSE LET x == CHOOSE y \in found : TRUE IN
               /\ SetReq(w, [req[w] EXCEPT !.obj = [id |-> x.id, visit_count |-> VisibleCount(x, w)]])
               /\ Goto(w, "rv_incr")
               /\ UNCHANGED <<visits, cstats, log>>
    /\ UNCHANGED <<rec, restaurants, receipts, today, nextRid, edits>>

\* get_or_create, create() in a savepoint; on IntegrityError the second get()
RvCreate(w) ==
    /\ pc[w] = "rv_create"
    /\ LET u == req[w].user
           r == req[w].restaurant
           conflicts == VisitConflicts(visits, u, r)
           found == VisitLookup(Visible(visits, w), u, r) IN
       /\ ~Blocked(conflicts, w)
       /\ IF conflicts = {}
             THEN /\ visits' = visits \cup {NewVisit(w, req[w].rid, u, r, req[w].date)}
                  /\ Goto(w, "cs_query")
                  /\ UNCHANGED <<req, cstats, log>>
          ELSE IF Cardinality(found) = 1
             THEN LET x == CHOOSE y \in found : TRUE IN
                  /\ SetReq(w, [req[w] EXCEPT !.obj = [id |-> x.id, visit_count |-> VisibleCount(x, w)]])
                  /\ Goto(w, "rv_incr")
                  /\ log' = [log EXCEPT ![req[w].rid].ierr = TRUE]
                  /\ UNCHANGED <<visits, cstats>>
          ELSE Fail(w)
    /\ UNCHANGED <<rec, restaurants, receipts, today, nextRid, edits>>

\* restaurant_visit.save(update_fields=["visit_count"]); refresh_from_db()
RvIncr(w) ==
    /\ pc[w] = "rv_incr"
    /\ \E x \in visits :
          /\ x.id = req[w].obj.id
          /\ ~Blocked({x}, w)
          /\ visits' = (visits \ {x}) \cup {SaveVisitCount(x, w, req[w].obj.visit_count)}
    /\ Goto(w, "cs_query")
    /\ UNCHANGED <<rec, restaurants, receipts, cstats, req, today, nextRid, edits, log>>

NextCuisine(w, todo) ==
    /\ SetReq(w, [req[w] EXCEPT !.todo = todo, !.obj = IdleReq.obj])
    /\ Goto(w, IF todo = <<>> THEN "commit" ELSE "cs_get")

\* restaurant_cuisines = restaurant.cuisines.all(), evaluated by the for loop;
\* the log keeps the tags the restaurant carries at this moment
CsQuery(w) ==
    /\ pc[w] = "cs_query"
    /\ NextCuisine(w, CuisinesOf(req[w].restaurant))
    /\ log' = [log EXCEPT ![req[w].rid].tags = restaurants[req[w].restaurant].cuisines]
    /\ UNCHANGED <<rec, restaurants, receipts, visits, cstats, today, nextRid, edits>>

CsGet(w) ==
    /\ pc[w] = "cs_get"
    /\ LET found == StatLookup(Visible(cstats, w), req[w].user, Head(req[w].todo)) IN
          IF found = {}
             THEN Goto(w, "cs_create") /\ UNCHANGED <<req, visits, cstats, log>>
          ELSE IF Cardinality(found) > 1
             THEN Fail(w)
          ELSE LET x == CHOOSE y \in found : TRUE IN
               /\ SetReq(w, [req[w] EXCEPT !.obj = [id |-> x.id, visit_count |-> VisibleCount(x, w)]])
               /\ Goto(w, "cs_incr")
               /\ UNCHANGED <<visits, cstats, log>>
    /\ UNCHANGED <<rec, restaurants, receipts, today, nextRid, edits>>

CsCreate(w) ==
    /\ pc[w] = "cs_create"
    /\ LET u == req[w].user
           c == Head(req[w].todo)
           conflicts == StatConflicts(cstats, u, c)
           found == StatLookup(Visible(cstats, w), u, c) IN
       /\ ~Blocked(conflicts, w)
       /\ IF conflicts = {}
             THEN /\ cstats' = cstats \cup {NewStat(w, <<req[w].rid, c>>, u, c)}
                  /\ NextCuisine(w, Tail(req[w].todo))
                  /\ UNCHANGED <<visits, log>>
          ELSE IF Cardinality(found) = 1
             THEN LET x == CHOOSE y \in found : TRUE IN
                  /\ SetReq(w, [req[w] EXCEPT !.obj = [id |-> x.id, visit_count |-> VisibleCount(x, w)]])
                  /\ Goto(w, "cs_incr")
                  /\ log' = [log EXCEPT ![req[w].rid].ierr = TRUE]
                  /\ UNCHANGED <<visits, cstats>>
          ELSE Fail(w)
    /\ UNCHANGED <<rec, restaurants, receipts, today, nextRid, edits>>

\* cuisine_stat.save(update_fields=["visit_count"]); refresh_from_db()
CsIncr(w) ==
    /\ pc[w] = "cs_incr"
    /\ \E x \in cstats :
          /\ x.id = req[w].obj.id
          /\ ~Blocked({x}, w)
          /\ cstats' = (cstats \ {x}) \cup {SaveVisitCount(x, w, req[w].obj.visit_count)}
    /\ NextCuisine(w, Tail(req[w].todo))
    /\ UNCHANGED <<rec, restaurants, receipts, visits, today, nextRid, edits, log>>

\* transaction.atomic() exits normally; the handler and save() return
LedgerCommit(w) ==
    /\ pc[w] = "commit"
    /\ visits' = CommitRows(visits, w)
    /\ cstats' = CommitRows(cstats, w)
    /\ log' = [log EXCEPT ![req[w].rid].status = HandlerOutcome(FALSE)]
    /\ AfterSignal(w)
    /\ UNCHANGED <<rec, restaurants, receipts, today, nextRid, edits>>

\* a database error (connection lost, statement timeout) inside the ledger update
DbError(w) ==
    /\ pc[w] \in LedgerPcs
    /\ Fail(w)
    /\ UNCHANGED <<rec, restaurants, receipts, today, nextRid, edits>>

\* midnight passes
Tick ==
    /\ today < MaxDay
    /\ today' = today + 1
    /\ UNCHANGED <<rec, restaurants, receipts, visits, cstats, pc, req, nextRid, edits, log>>

Ledger(w) ==
    \/ RvGet(w) \/ RvCreate(w) \/ RvIncr(w)
    \/ CsQuery(w) \/ CsGet(w) \/ CsCreate(w) \/ CsIncr(w)
    \/ LedgerCommit(w)

----------------------------------------------------------------------------
(* Read projections over the ledger *)

Range(s) == {s[i] : i \in 1..Len(s)}
Min(a, b) == IF a < b THEN a ELSE b

\* the sequences a query over the rows S may return with ORDER BY and [:limit];
\* After(a, b) says that a sorts strictly after b, and the database is free in
\* the order of rows that sort alike
QueryResults(S, After(_, _), limit) ==
    LET n == Min(Cardinality(S), limit) IN
    {s \in [1..n -> S] :
        /\ \A i, j \in 1..n : i < j => (s[i] # s[j] /\ ~After(s[i], s[j]))
        /\ \A x \in S \ Range(s) : \A i \in 1..n : ~After(s[i], x)}

\* an ascending order
ByVisitCountAscending(a, b) == a.visit_count > b.visit_count

\* .order_by("-visit_count")
ByVisitCount(a, b) == a.visit_count < b.visit_count

\* UserRestaurantVisit.Meta.ordering = ['-last_visit', '-visit_count']
VisitDefaultOrdering(a, b) ==
    \/ a.last_visit < b.last_visit
    \/ (a.last_visit = b.last_visit /\ a.visit_count < b.visit_count)

\* a filter that looks at the latitude only
HasLatitude(r) == restaurants[r].latitude # None

\* restaurant__latitude__isnull=False, restaurant__longitude__isnull=False
HasCoordinates(r) == restaurants[r].latitude # None /\ restaurants[r].longitude # None

\* RestaurantRecommendationService.get_user_frequent_locations(user, limit):
\* the set of lists the call may return
GetUserFrequentLocations(u, limit) ==
    LET top == QueryResults({x \in Committed(visits) : x.user = u /\ HasCoordinates(x.restaurant)},
                            ByVisitCount, limit) IN
    {[i \in 1..Len(s) |->
        [restaurant_name |-> s[i].restaurant,
         latitude |-> restaurants[s[i].restaurant].latitude,
         longitude |-> restaurants[s[i].restaurant].longitude,
         visit_count |-> s[i].visit_count]] : s \in top}

\* RestaurantRecommendationService.get_user_top_cuisines(user, limit)
GetUserTopCuisines(u, limit) ==
    LET top == QueryResults({x \in Committed(cstats) : x.user = u}, ByVisitCount, limit) IN
    {[i \in 1..Len(s) |-> s[i].cuisine] : s \in top}

\* visit_tracking.get_user_top_restaurants(user, limit): no order_by, so the
\* model's default ordering applies
GetUserTopRestaurants(u, limit) ==
    LET top == QueryResults({x \in Committed(visits) : x.user = u}, VisitDefaultOrdering, limit) IN
    {[i \in 1..Len(s) |-> <<s[i].restaurant, s[i].visit_count>>] : s \in top}

----------------------------------------------------------------------------
(* Places gateway: GooglePlacesService *)

\* an optional value is a set with at most one element: {} is a missing key,
\* None or an argument left out
Some(v) == {v}
Get(opt, default) == IF opt = {} THEN default ELSE CHOOSE v \in opt : TRUE

\* Python truth of an optional number: None and 0 are false
Truthy(opt) == opt # {} /\ opt # Some(0)

\* the Google place types of the model
PlaceTypes == {"restaurant", "italian_restaurant", "pizza_restaurant",
               "meal_takeaway", "food", "point_of_interest"}

\* food_related_types, over the types of the model
FoodRelatedTypes == {"italian_restaurant", "pizza_restaurant", "meal_takeaway", "restaurant"}

\* generic_types
GenericTypes == {"restaurant", "meal_delivery", "meal_takeaway", "food"}

\* type_name.replace("_", " ").title()
TypeLabel(type_name) ==
    CASE type_name = "restaurant" -> "Restaurant"
      [] type_name = "italian_restaurant" -> "Italian Restaurant"
      [] type_name = "pizza_restaurant" -> "Pizza Restaurant"
      [] type_name = "meal_takeaway" -> "Meal Takeaway"
      [] type_name = "food" -> "Food"
      [] OTHER -> "Point Of Interest"

\* the first loop of _extract_cuisines_from_types: the label of every type
\* in food_related_types, once, in the order of the types
RECURSIVE FoodRelatedLabels(_)
FoodRelatedLabels(types) ==
    IF types = <<>> THEN <<>>
    ELSE LET front == FoodRelatedLabels(SubSeq(types, 1, Len(types) - 1))
             type_name == types[Len(types)] IN
         IF type_name \in FoodRelatedTypes /\ TypeLabel(type_name) \notin Range(front)
            THEN Append(front, TypeLabel(type_name)) ELSE front

\* GooglePlacesService._extract_cuisines_from_types
ExtractCuisinesFromTypes(types) ==
    LET cuisines == FoodRelatedLabels(types) IN
    IF cuisines # <<>> THEN cuisines
    ELSE IF \E i \in 1..Len(types) : types[i] \in GenericTypes THEN <<"Restaurant">>
    ELSE <<>>

\* the outcome of a block of code: a returned value or a raised exception
Returned(v) == [raised |-> FALSE, value |-> v]
Raised == [raised |-> TRUE, value |-> <<>>]

\* a method without its except clause
Rethrow(outcome, fallback) == outcome

\* try: ... except Exception: return fallback
Catch(outcome, fallback) == IF outcome.raised THEN Returned(fallback) ELSE outcome

\* the outcome of a gateway method: called says whether the external service
\* was called
GatewayOutcome(outcome, called) ==
    [raised |-> outcome.raised, value |-> outcome.value, called |-> called]

\* places the external service knows; ratings in tenths
PlaceA == [place_id |-> "pA", rating |-> Some(48), price_level |-> Some(1),
           types |-> <<"restaurant", "italian_restaurant", "food">>]
PlaceB == [place_id |-> "pB", rating |-> Some(42), price_level |-> Some(2),
           types |-> <<"restaurant", "food">>]
PlaceU == [place_id |-> "pU", rating |-> {}, price_level |-> {},
           types |-> <<"pizza_restaurant", "point_of_interest">>]
\* the place pA as a later search reports it, its rating having moved
PlaceA2 == [place_id |-> "pA", rating |-> Some(50), price_level |-> Some(1),
            types |-> <<"restaurant", "italian_restaurant", "food">>]

\* what client.places_nearby may answer: ok = FALSE is an exception raised by
\* the call or while its answer is read (transport error, API error status,
\* malformed answer)
NearbyResponses ==
    {[ok |-> FALSE, results |-> <<>>],
     [ok |-> TRUE, results |-> <<>>],
     [ok |-> TRUE, results |-> <<PlaceU>>],
     [ok |-> TRUE, results |-> <<PlaceB, PlaceA>>],
     [ok |-> TRUE, results |-> <<PlaceA, PlaceU>>],
     [ok |-> TRUE, results |-> <<PlaceA2>>]}

\* desired.lower() in place_cuisine.lower(), over the strings of the model
IsSubstringIgnoreCase(desired, label) ==
    <<desired, label>> \in {<<"Italian", "Italian Restaurant">>, <<"Pizza", "Pizza Restaurant">>}

\* list.sort(key=lambda x: x.get("rating", 0), reverse=True): the key is
\* present in every dict, so a missing rating is the key None, and Python
\* raises TypeError as soon as it compares None
SortRaises(recs) == Len(recs) >= 2 /\ \E i \in 1..Len(recs) : recs[i].rating = {}

\* stable insertion by descending rating (reverse=True keeps equal keys in order)
InsertByRating(sorted, x) ==
    LET k == Cardinality({i \in 1..Len(sorted) : Get(sorted[i].rating, 0) >= Get(x.rating, 0)}) IN
    SubSeq(sorted, 1, k) \o <<x>> \o SubSeq(sorted, k + 1, Len(sorted))

RECURSIVE SortByRating(_)
SortByRating(recs) ==
    IF recs = <<>> THEN <<>>
    ELSE InsertByRating(SortByRating(SubSeq(recs, 1, Len(recs) - 1)), recs[Len(recs)])

\* a rating filter that lets unrated places through
RatingFilterSkipsUnrated(place, min_rating) ==
    min_rating # {} /\ place.rating # {} /\ Get(place.rating, 0) < Get(min_rating, 0)

\* if min_rating and place.get("rating", 0) < min_rating: continue
RatingFilterRejects(place, min_rating) ==
    Truthy(min_rating) /\ Get(place.rating, 0) < Get(min_rating, 0)

\* if max_price_level is not None and place.get("price_level", 5) > max_price_level: continue
PriceFilterRejects(place, max_price_level) ==
    max_price_level # {} /\ Get(place.price_level, 5) > Get(max_price_level, 0)

\* if cuisine_types: ... if not cuisine_match: continue
CuisineFilterRejects(place, cuisine_types) ==
    LET place_cuisines == ExtractCuisinesFromTypes(place.types) IN
    /\ cuisine_types # <<>>
    /\ ~\E i \in 1..Len(place_cuisines), j \in 1..Len(cuisine_types) :
            IsSubstringIgnoreCase(cuisine_types[j], place_cuisines[i])

\* restaurant_data of a place
RestaurantData(place) ==
    [place_id |-> place.place_id, rating |-> place.rating, price_level |-> place.price_level,
     types |-> place.types, cuisines |-> ExtractCuisinesFromTypes(place.types)]

\* GooglePlacesService.search_nearby_restaurants on a service whose client is
\* set (client = TRUE) or disabled, the external service answering resp
SearchNearbyOutcome(client, resp, min_rating, max_price_level, cuisine_types, top_k_results) ==
    LET Keep(place) ==
            /\ ~RatingFilterRejects(place, min_rating)
            /\ ~PriceFilterRejects(place, max_price_level)
            /\ ~CuisineFilterRejects(place, cuisine_types)
        kept == SelectSeq(resp.results, Keep)
        restaurants_ == [i \in 1..Len(kept) |-> RestaurantData(kept[i])]
        body == IF ~resp.ok \/ SortRaises(restaurants_) THEN Raised
                ELSE Returned(SubSeq(SortByRating(restaurants_), 1,
                                     Min(top_k_results, Len(restaurants_))))
    IN IF ~client THEN GatewayOutcome(Returned(<<>>), FALSE)
       ELSE GatewayOutcome(Catch(body, <<>>), TRUE)

\* the list search_nearby_restaurants returns when its client is set
SearchNearbyRestaurants(resp, min_rating, max_price_level, cuisine_types, top_k_results) ==
    SearchNearbyOutcome(TRUE, resp, min_rating, max_price_level, cuisine_types, top_k_results).value

\* Python truth of an optional coordinate: None and 0.0 are false
TruthyCoordinate(opt) == opt # {} /\ opt # Some("0.0")

\* Decimal(str(rating)): a rating in tenths as a decimal in hundredths
DecimalOfRating(rating) == rating * 10

\* what client.place may answer for a place: the "result" part of an OK answer
DetailsA == [place_id |-> Some("pA"), name |-> Some("Trattoria Roma"),
             formatted_address |-> Some("Via Roma 1, Roma"),
             lat |-> Some("41.9"), lng |-> Some("12.5"), rating |-> Some(45),
             types |-> <<"restaurant", "italian_restaurant", "food">>]
\* a place on the equator, without rating, name or food type
DetailsSparse == [place_id |-> Some("pB"), name |-> {}, formatted_address |-> Some("Km 1, Quito"),
                  lat |-> Some("0.0"), lng |-> Some("-78.5"), rating |-> Some(0),
                  types |-> <<"point_of_interest">>]
NoDetails == [place_id |-> {}, name |-> {}, formatted_address |-> {},
              lat |-> {}, lng |-> {}, rating |-> {}, types |-> <<>>]

\* the answers to client.place: an exception raised by the call (transport
\* error, timeout, API error), an answer that is not a dict, a status other
\* than OK, an OK answer
DetailResponses ==
    {[kind |-> "raise", result |-> NoDetails],
     [kind |-> "malformed", result |-> NoDetails],
     [kind |-> "status", result |-> NoDetails],
     [kind |-> "ok", result |-> DetailsA],
     [kind |-> "ok", result |-> DetailsSparse]}

\* the dict fetch_restaurant_details builds from place_data
NormalizedDetails(place_data) ==
    [place_id |-> place_data.place_id,
     name |-> place_data.name,
     address |-> place_data.formatted_address,
     latitude |-> IF TruthyCoordinate(place_data.lat) THEN place_data.lat ELSE {},
     longitude |-> IF TruthyCoordinate(place_data.lng) THEN place_data.lng ELSE {},
     rating |-> IF Truthy(place_data.rating)
                   THEN Some(DecimalOfRating(Get(place_data.rating, 0))) ELSE {},
     cuisines |-> ExtractCuisinesFromTypes(place_data.types)]

\* GooglePlacesService.fetch_restaurant_details: the value is {} for None
FetchRestaurantDetails(client, resp) ==
    LET body == CASE resp.kind \in {"raise", "malformed"} -> Raised
                  [] resp.kind = "status" -> Returned({})
                  [] OTHER -> Returned(Some(NormalizedDetails(resp.result)))
    IN IF ~client THEN GatewayOutcome(Returned({}), FALSE)
       ELSE GatewayOutcome(Catch(body, {}), TRUE)

\* the answers to client.find_place: an exception, an answer that is not a
\* dict, and answers with the candidates listed
FindResponses ==
    {[kind |-> "raise", candidates |-> <<>>],
     [kind |-> "malformed", candidates |-> <<>>],
     [kind |-> "ok", candidates |-> <<>>],
     [kind |-> "ok", candidates |-> <<[place_id |-> {}]>>],
     [kind |-> "ok", candidates |-> <<[place_id |-> Some("pA")]>>],
     [kind |-> "ok", candidates |-> <<[place_id |-> Some("pN")], [place_id |-> Some("pA")]>>]}

\* GooglePlacesService.find_place_from_text: the first candidate, {} for None
FindPlaceFromText(client, resp) ==
    LET candidates == IF resp.kind = "ok" THEN resp.candidates ELSE <<>>
        body == IF resp.kind = "raise" THEN Raised
                ELSE IF candidates = <<>> THEN Returned({})
                ELSE Returned(Some([place_id |-> candidates[1].place_id]))
    IN IF ~client THEN GatewayOutcome(Returned({}), FALSE)
       ELSE GatewayOutcome(Catch(body, {}), TRUE)

\* GooglePlacesService.get_recommendations_near_location
GetRecommendationsNearLocation(resp, recommendation_type, user_cuisines, top_k_results) ==
    CASE recommendation_type = "good" ->
            SearchNearbyRestaurants(resp, Some(40), {}, <<>>, top_k_results)
      [] recommendation_type = "cheap" ->
            SearchNearbyRestaurants(resp, {}, Some(1), <<>>, top_k_results)
      [] recommendation_type = "cuisine_match" /\ user_cuisines # <<>> ->
            SearchNearbyRestaurants(resp, {}, {}, user_cuisines, top_k_results)
      [] OTHER ->
            SearchNearbyRestaurants(resp, {}, {}, <<>>, top_k_results)

----------------------------------------------------------------------------
(* RestaurantRecommendationService *)

RecommendationKinds == {"good", "cheap", "cuisine_match"}

\* default of get_user_frequent_locations / get_user_top_cuisines
DefaultTopLimit == 5
\* default of per_location_limit
PerLocationLimit == 20

\* _get_matching_cuisines
GetMatchingCuisines(restaurant_cuisines, user_cuisines) ==
    SelectSeq(restaurant_cuisines,
              LAMBDA rc : \E j \in 1..Len(user_cuisines) : IsSubstringIgnoreCase(user_cuisines[j], rc))

\* the reference location, the kind and the matched cuisines put on a result
Annotate(place, location, kind, user_cuisines) ==
    [place_id |-> place.place_id, rating |-> place.rating, price_level |-> place.price_level,
     types |-> place.types, cuisines |-> place.cuisines,
     reference_location |-> [restaurant_name |-> location.restaurant_name,
                             visit_count |-> location.visit_count],
     recommendation_type |-> kind,
     matched_cuisines |-> IF kind = "cuisine_match"
                             THEN GetMatchingCuisines(place.cuisines, user_cuisines) ELSE <<>>]

\* a deduplication that keeps the last entry of a place instead of the first
RECURSIVE DeduplicateKeepLast(_)
DeduplicateKeepLast(recs) ==
    IF recs = <<>> THEN <<>>
    ELSE LET back == DeduplicateKeepLast(Tail(recs)) IN
         IF Head(recs).place_id # None /\ \A i \in 1..Len(back) : back[i].place_id # Head(recs).place_id
            THEN <<Head(recs)>> \o back ELSE back

\* _deduplicate_recommendations
RECURSIVE DeduplicateRecommendations(_)
DeduplicateRecommendations(recs) ==
    IF recs = <<>> THEN <<>>
    ELSE LET front == DeduplicateRecommendations(SubSeq(recs, 1, Len(recs) - 1))
             last == recs[Len(recs)] IN
         IF last.place_id # None /\ \A i \in 1..Len(front) : front[i].place_id # last.place_id
            THEN Append(front, last) ELSE front

\* the results of the locations 1..n, annotated and concatenated in order
RECURSIVE AllRecommendations(_, _, _, _, _)
AllRecommendations(n, locations, kind, user_cuisines, resp) ==
    IF n = 0 THEN <<>>
    ELSE LET found == GetRecommendationsNearLocation(resp[n], kind, user_cuisines, PerLocationLimit) IN
         AllRecommendations(n - 1, locations, kind, user_cuisines, resp)
            \o [i \in 1..Len(found) |-> Annotate(found[i], locations[n], kind, user_cuisines)]

\* a service that searches even when the user has no cuisine statistics
SearchWithoutCuisines(kind, frequent_locations, user_cuisines, resp, limit) ==
    IF frequent_locations = <<>>
       THEN [result |-> <<>>, calls |-> 0, error |-> FALSE]
    ELSE LET unique == DeduplicateRecommendations(
                          AllRecommendations(Len(frequent_locations), frequent_locations,
                                             kind, user_cuisines, resp)) IN
         IF SortRaises(unique)
            THEN [result |-> <<>>, calls |-> Len(frequent_locations), error |-> TRUE]
            ELSE [result |-> SubSeq(SortByRating(unique), 1, Min(limit, Len(unique))),
                  calls |-> Len(frequent_locations), error |-> FALSE]

\* get_good_restaurants_recommendations, get_cheap_restaurants_recommendations
\* and get_cuisine_match_recommendations; calls counts the gateway searches,
\* error says that an exception left the method
GetRecommendations(kind, frequent_locations, user_cuisines, resp, limit) ==
    IF frequent_locations = <<>> \/ (kind = "cuisine_match" /\ user_cuisines = <<>>)
       THEN [result |-> <<>>, calls |-> 0, error |-> FALSE]
    ELSE LET unique == DeduplicateRecommendations(
                          AllRecommendations(Len(frequent_locations), frequent_locations,
                                             kind, user_cuisines, resp)) IN
         IF SortRaises(unique)
            THEN [result |-> <<>>, calls |-> Len(frequent_locations), error |-> TRUE]
            ELSE [result |-> SubSeq(SortByRating(unique), 1, Min(limit, Len(unique))),
                  calls |-> Len(frequent_locations), error |-> FALSE]

\* a recommendation request of user u served by worker w
Recommend(w, u, kind) ==
    /\ pc[w] = "idle"
    /\ \E limit \in 1..MaxLimit,
          locations \in GetUserFrequentLocations(u, DefaultTopLimit),
          user_cuisines \in GetUserTopCuisines(u, DefaultTopLimit) :
          \E resp \in [1..Len(locations) -> NearbyResponses] :
             LET out == GetRecommendations(kind, locations, user_cuisines, resp, limit) IN
             rec' = [user |-> u, kind |-> kind, result |-> out.result,
                     calls |-> out.calls, error |-> out.error,
                     locations |-> locations, cuisines |-> user_cuisines,
                     responses |-> resp, limit |-> limit]
    /\ Goto(w, "rec_done")
    /\ UNCHANGED <<restaurants, receipts, visits, cstats, req, today, nextRid, edits, log>>

\* the response is sent
RecRespond(w) ==
    /\ pc[w] = "rec_done"
    /\ rec' = NoRec
    /\ Goto(w, "idle")
    /\ UNCHANGED <<restaurants, receipts, visits, cstats, req, today, nextRid, edits, log>>

----------------------------------------------------------------------------
(* Restaurant enrichment: ReceiptSerializer.create, which creates stub    *)
(* restaurants and sends the task messages, and the Celery tasks           *)
(* update_restaurant_info and create_restaurant_from_places_data           *)

\* a fourth restaurant, with coordinates and without cuisines
RegularRestaurants == RestaurantIds \cup {"r4"}

MaxTasks == 2
MaxNew == 2

\* @shared_task(bind=True, max_retries=3)
MaxRetries == 3

\* the state an enrichment step leaves alone, the Restaurant table apart
besideTasks == <<receipts, visits, cstats, pc, req, today, nextRid, edits, log, rec, gw>>

\* the restaurants created since the start, and the primary key of the next
Created == DOMAIN restaurants \ RegularRestaurants
NewId == <<"n1", "n2", "n3", "n4">>[Cardinality(Created) + 1]

\* f"stub_{uuid.uuid4().hex[:16]}": a fresh placeholder per stub
StubPlaceIds == {"stub_n1", "stub_n2", "stub_n3", "stub_n4"}
StubPlaceId == <<"stub_n1", "stub_n2", "stub_n3", "stub_n4">>[Cardinality(Created) + 1]

\* restaurant.place_id.startswith("stub_")
IsStub(place_id) == place_id \in StubPlaceIds

\* a column without its unique constraint
NoPlaceIdConflicts(T, r, place_id) == {}

\* place_id = CharField(unique=True): the other rows holding place_id
PlaceIdConflicts(T, r, place_id) == {x \in DOMAIN T \ {r} : T[x].place_id = place_id}

\* str.lower() over the names of the model
Lower(name) == IF name = "Roma" THEN "roma" ELSE name

\* name__iexact=restaurant_name
NameIExact(name, restaurant_name) == Lower(name) = Lower(restaurant_name)

\* address__icontains=restaurant_address[:50]
AddressIContains(address, restaurant_address) ==
    \/ address = restaurant_address
    \/ <<address, restaurant_address>> \in {<<"Via Roma 1, Roma", "Via Roma 1">>}

\* what a client may send: a restaurant id, or a name and an address typed in
ReceiptInputs ==
    {[restaurant_id |-> "r3", restaurant_name |-> None, address |-> None],
     [restaurant_id |-> None, restaurant_name |-> "Da Nino", address |-> "Via Po 2"]}

\* update_restaurant_info.delay(str(restaurant.id))
Message(restaurant) == [tid |-> nextTid, restaurant |-> restaurant, retries |-> 0]
Delay(restaurant) ==
    /\ queue' = queue \cup {Message(restaurant)}
    /\ nextTid' = nextTid + 1

\* ReceiptSerializer.create up to the return of Receipt.objects.create into
\* the signal handler: the restaurant is looked up or a stub is created and
\* enqueued, then the receipt is inserted
SerializerCreate(w, u, input, d) ==
    /\ nextTid <= MaxTasks
    /\ IF input.restaurant_id # None
          THEN /\ InsertReceipt(w, u, input.restaurant_id, d, input.restaurant_id)
               /\ UNCHANGED <<restaurants, queue, nextTid>>
       ELSE IF input.restaurant_name # None /\ input.address # None
          THEN LET found == {r \in DOMAIN restaurants :
                                /\ NameIExact(restaurants[r].name, input.restaurant_name)
                                /\ AddressIContains(restaurants[r].address, input.address)} IN
               IF found # {}
                  THEN /\ \E r \in found : InsertReceipt(w, u, r, d, r)
                       /\ UNCHANGED <<restaurants, queue, nextTid>>
                  ELSE /\ Cardinality(Created) < MaxNew
                       /\ restaurants' = restaurants @@
                             (NewId :> [place_id |-> StubPlaceId, name |-> input.restaurant_name,
                                        address |-> input.address, latitude |-> None,
                                        longitude |-> None, rating |-> {}, cuisines |-> {}])
                       /\ Delay(NewId)
                       /\ InsertReceipt(w, u, NewId, d, NewId)
       ELSE /\ InsertReceipt(w, u, None, d, None)
            /\ UNCHANGED <<restaurants, queue, nextTid>>
    /\ UNCHANGED <<gw, jobs, runs>>

\* ReceiptSerializer.create after super().create(): if restaurant_instance:
\* update_restaurant_info.delay(...)
SerializerEnqueue(w) ==
    /\ pc[w] = "enqueue"
    /\ Delay(req[w].enqueue)
    /\ Goto(w, "idle")
    /\ SetReq(w, IdleReq)
    /\ UNCHANGED <<restaurants, receipts, visits, cstats, today, nextRid, edits, log, rec,
                   gw, jobs, runs>>

\* the row of a restaurant, None when the id is not on record
RowOf(T, r) == IF r \in DOMAIN T THEN T[r] ELSE None

\* the record of a run that ends: what it was given, what it did, and the
\* row of its restaurant before and after
Run(job, status, updated_fields, cause, countdown, data) ==
    [restaurant |-> job.restaurant, retries |-> job.retries,
     finds |-> job.finds, found |-> job.found,
     persisted |-> job.persisted, fetches |-> job.fetches, fetched |-> job.fetched,
     status |-> status, updated_fields |-> updated_fields,
     cause |-> cause, countdown |-> countdown, data |-> data, loaded |-> job.obj,
     before |-> RowOf(restaurants, job.restaurant),
     after |-> RowOf(restaurants', job.restaurant)]

\* the runs of a task so far, first attempt first
Attempts(tid) == IF tid \in DOMAIN runs THEN runs[tid] ELSE <<>>

\* a run of the task is over
Record(job, run) == runs' = (job.tid :> Append(Attempts(job.tid), run)) @@ runs

\* a Celery worker takes a message of update_restaurant_info and loads the
\* restaurant: restaurant = Restaurant.objects.get(id=restaurant_id), which
\* raises Restaurant.DoesNotExist into the error result "Restaurant not found"
TaskStart(c) ==
    /\ jobs[c].pc = "idle"
    /\ UNCHANGED <<restaurants, nextTid, besideTasks>>
    /\ \E m \in queue :
          LET obj == RowOf(restaurants, m.restaurant)
              job == [pc |-> IF m.restaurant \notin DOMAIN restaurants THEN "idle"
                             ELSE IF IsStub(obj.place_id) THEN "find" ELSE "fetch",
                      tid |-> m.tid, restaurant |-> m.restaurant,
                      retries |-> m.retries, obj |-> obj,
                      finds |-> 0, found |-> {}, persisted |-> {},
                      fetches |-> 0, fetched |-> {}] IN
          /\ queue' = queue \ {m}
          /\ IF m.restaurant \in DOMAIN restaurants
                THEN jobs' = [jobs EXCEPT ![c] = job] /\ UNCHANGED runs
                ELSE /\ Record(job, Run(job, "error", {}, "Restaurant not found", 0, {}))
                     /\ UNCHANGED jobs

\* update_restaurant_info.delay(id) for an id that is not, or no longer, on
\* record
DelayUnknown ==
    /\ nextTid <= MaxTasks
    /\ Delay("missing")
    /\ UNCHANGED <<restaurants, jobs, runs, besideTasks>>

\* a result that is returned and the task enqueued again
ReturnAndRetry(c, job, status, updated_fields, cause, data) ==
    /\ Record(job, Run(job, status, updated_fields, cause, 0, data))
    /\ jobs' = [jobs EXCEPT ![c] = IdleJob]
    /\ queue' = queue \cup {[tid |-> job.tid, restaurant |-> job.restaurant,
                             retries |-> job.retries + 1]}
    /\ UNCHANGED nextTid

\* the task returns a result
TaskReturn(c, job, status, updated_fields, cause, data) ==
    /\ Record(job, Run(job, status, updated_fields, cause, 0, data))
    /\ jobs' = [jobs EXCEPT ![c] = IdleJob]
    /\ UNCHANGED <<queue, nextTid>>

\* a retry guard that allows one retry too many
RetryAllowedOnceMore(retries) == retries <= MaxRetries

\* if self.request.retries < self.max_retries
RetryAllowed(retries) == retries < MaxRetries

\* countdown = 2**self.request.retries * 60
Countdown(retries) == (2 ^ retries) * 60

\* a handler that gives up at the first error
FailWithoutRetry(c, job, cause) == TaskReturn(c, job, "error", {}, cause, {})

\* except Exception: retry with backoff, or give up with an error result
TaskFail(c, job, cause) ==
    IF RetryAllowed(job.retries)
       THEN /\ queue' = queue \cup {[tid |-> job.tid, restaurant |-> job.restaurant,
                                     retries |-> job.retries + 1]}
            /\ Record(job, Run(job, "retry", {}, cause, Countdown(job.retries), {}))
            /\ jobs' = [jobs EXCEPT ![c] = IdleJob]
            /\ UNCHANGED nextTid
       ELSE TaskReturn(c, job, "error", {}, cause, {})

\* the stub branch: find_place_from_text, then save(update_fields=["place_id"])
EnrichFind(c) ==
    /\ jobs[c].pc = "find"
    /\ \E resp \in FindResponses :
          LET place_candidate == FindPlaceFromText(TRUE, resp).value
              r == jobs[c].restaurant IN
          IF place_candidate # {} /\ Get(place_candidate, NoDetails).place_id # {}
             THEN LET place_id == Get(Get(place_candidate, NoDetails).place_id, None) IN
                  IF PlaceIdConflicts(restaurants, r, place_id) # {}
                     THEN /\ UNCHANGED restaurants
                          /\ TaskFail(c, [jobs[c] EXCEPT !.finds = 1, !.found = Some(place_id),
                                                         !.persisted = Some(restaurants[r].place_id)],
                                      "IntegrityError")
                     ELSE /\ restaurants' = [restaurants EXCEPT ![r].place_id = place_id]
                          /\ jobs' = [jobs EXCEPT ![c].obj.place_id = place_id, ![c].pc = "fetch",
                                                  ![c].finds = 1, ![c].found = Some(place_id),
                                                  ![c].persisted = Some(place_id)]
                          /\ UNCHANGED <<queue, runs, nextTid>>
             ELSE /\ UNCHANGED restaurants
                  /\ TaskReturn(c, [jobs[c] EXCEPT !.finds = 1], "error", {},
                                "Could not find real place_id for stub restaurant", {})
    /\ UNCHANGED besideTasks

\* a comparison that takes every value received for a change
ReceivedCounts(new, old) == new # {}

\* if data.get(f) and data[f] != restaurant.f: the value received is set and
\* differs from the one the object was loaded with
FieldChanged(new, old) == new # {} /\ new # old

\* a nullable column as an optional value
Nullable(v) == IF v = None THEN {} ELSE Some(v)

\* the fields of the restaurant object that the block under
\* transaction.atomic() changes, given the details received
UpdatedFields(obj, current_cuisine_names, data) ==
    {f \in {"name"} : FieldChanged(data.name, Some(obj.name))}
    \cup {f \in {"address"} : FieldChanged(data.address, Some(obj.address))}
    \cup {f \in {"cuisines"} : data.cuisines # <<>> /\ current_cuisine_names # Range(data.cuisines)}
    \cup {f \in {"rating"} : FieldChanged(data.rating, obj.rating)}
    \cup {f \in {"latitude"} : FieldChanged(data.latitude, Nullable(obj.latitude))}
    \cup {f \in {"longitude"} : FieldChanged(data.longitude, Nullable(obj.longitude))}

\* a save that writes back the object as it was loaded
LoadedRow(obj, current_cuisine_names, data) == [obj EXCEPT !.cuisines = current_cuisine_names]

\* the row restaurant.save() writes: every column from the object, the
\* cuisines as restaurant.cuisines.set() left them
UpdatedRow(obj, current_cuisine_names, data) ==
    LET changed == UpdatedFields(obj, current_cuisine_names, data) IN
    [place_id |-> obj.place_id,
     name |-> IF "name" \in changed THEN Get(data.name, None) ELSE obj.name,
     address |-> IF "address" \in changed THEN Get(data.address, None) ELSE obj.address,
     latitude |-> IF "latitude" \in changed THEN Get(data.latitude, None) ELSE obj.latitude,
     longitude |-> IF "longitude" \in changed THEN Get(data.longitude, None) ELSE obj.longitude,
     rating |-> IF "rating" \in changed THEN data.rating ELSE obj.rating,
     cuisines |-> IF "cuisines" \in changed THEN Range(data.cuisines) ELSE current_cuisine_names]

\* a failed block without transaction.atomic(): restaurant.cuisines.set()
\* stays when restaurant.save() raises
CuisinesKept(T, r, row) == [T EXCEPT ![r].cuisines = row.cuisines]

\* an exception leaves the block under transaction.atomic(): the cuisines
\* created and set inside it are rolled back with the rest
RolledBack(T, r, row) == T

\* a task that takes a missing answer for place details
NoDataIgnored(fetched) == FALSE

\* if not data
NoData(fetched) == fetched = {}

\* fetch_restaurant_details, then the update under transaction.atomic()
EnrichFetch(c) ==
    /\ jobs[c].pc = "fetch"
    /\ \E resp \in DetailResponses :
          LET fetched == FetchRestaurantDetails(TRUE, resp).value
              job == [jobs[c] EXCEPT !.fetches = 1, !.fetched = fetched]
              r == jobs[c].restaurant IN
          IF NoData(fetched)
             THEN /\ UNCHANGED restaurants
                  /\ TaskReturn(c, job, "error", {},
                                "Failed to fetch data from Google Places API", {})
          ELSE LET data == Get(fetched, NormalizedDetails(NoDetails))
                   row == UpdatedRow(jobs[c].obj, restaurants[r].cuisines, data) IN
               IF PlaceIdConflicts(restaurants, r, row.place_id) # {}
                  THEN /\ restaurants' = RolledBack(restaurants, r, row)
                       /\ TaskFail(c, job, "IntegrityError")
                  ELSE /\ restaurants' = [restaurants EXCEPT ![r] = row]
                       /\ TaskReturn(c, job, "success",
                                     UpdatedFields(jobs[c].obj, restaurants[r].cuisines, data),
                                     None, fetched)
    /\ UNCHANGED besideTasks

\* an unexpected error (the database is unreachable) inside the task body:
\* anywhere, or in restaurant.save() after the fields and the cuisines were set
EnrichError(c) ==
    /\ jobs[c].pc \in {"find", "fetch"}
    /\ \/ /\ UNCHANGED restaurants
          /\ TaskFail(c, jobs[c], "OperationalError")
       \/ /\ jobs[c].pc = "fetch"
          /\ \E resp \in DetailResponses :
                LET fetched == FetchRestaurantDetails(TRUE, resp).value
                    r == jobs[c].restaurant
                    data == Get(fetched, NormalizedDetails(NoDetails)) IN
                /\ ~NoData(fetched)
                /\ restaurants' = RolledBack(restaurants, r,
                                       UpdatedRow(jobs[c].obj, restaurants[r].cuisines, data))
                /\ TaskFail(c, [jobs[c] EXCEPT !.fetches = 1, !.fetched = fetched],
                            "OperationalError")
    /\ UNCHANGED besideTasks

\* a Celery worker takes a message of
\* create_restaurant_from_places_data(place_id, name, address) and looks for
\* the place: Restaurant.objects.filter(place_id=place_id).first()
CrStart(c, place_id) ==
    /\ jobs[c].pc = "idle"
    /\ nextTid <= MaxTasks
    /\ Cardinality(Created) < MaxNew
    /\ jobs' = [jobs EXCEPT ![c] =
          IF \E r \in DOMAIN restaurants : restaurants[r].place_id = place_id
             THEN IdleJob
             ELSE [pc |-> "cr_create", tid |-> nextTid, place_id |-> place_id,
                   name |-> "Da Nino", address |-> "Via Po 2"]]
    /\ nextTid' = nextTid + 1
    /\ UNCHANGED <<restaurants, queue, runs, besideTasks>>

\* fetch_restaurant_details, then Restaurant.objects.create: with the details
\* received, or the basic record and a message to enrich it later; any
\* exception (a NULL name or address, a duplicate place_id) returns None
CrCreate(c) ==
    /\ jobs[c].pc = "cr_create"
    /\ \E resp \in DetailResponses :
          LET fetched == FetchRestaurantDetails(TRUE, resp).value
              data == Get(fetched, NoDetails)
              job == jobs[c]
              row == IF fetched # {}
                        THEN [place_id |-> job.place_id, name |-> Get(data.name, None),
                              address |-> Get(data.address, None),
                              latitude |-> Get(data.latitude, None),
                              longitude |-> Get(data.longitude, None),
                              rating |-> data.rating, cuisines |-> Range(data.cuisines)]
                        ELSE [place_id |-> job.place_id, name |-> job.name,
                              address |-> job.address, latitude |-> None,
                              longitude |-> None, rating |-> {}, cuisines |-> {}] IN
          IF \/ row.name = None \/ row.address = None
             \/ PlaceIdConflicts(restaurants, NewId, job.place_id) # {}
             THEN UNCHANGED <<restaurants, queue, nextTid>>
             ELSE /\ restaurants' = restaurants @@ (NewId :> row)
                  /\ IF fetched # {} THEN UNCHANGED <<queue, nextTid>> ELSE Delay(NewId)
    /\ jobs' = [jobs EXCEPT ![c] = IdleJob]
    /\ UNCHANGED <<runs, besideTasks>>

MaxTypes == 3

\* the lists of at most MaxTypes place types
TypeLists == UNION {[1..n -> PlaceTypes] : n \in 0..MaxTypes}

\* a call of search_nearby_restaurants
GwSearch ==
    \E client \in BOOLEAN, resp \in NearbyResponses,
       min_rating \in {{}, Some(0), Some(40), Some(45)}, max_price_level \in {{}, Some(0), Some(1)},
       cuisine_types \in {<<>>, <<"Italian">>, <<"Pizza", "Italian">>},
       top_k_results \in 1..MaxLimit :
        gw' = [op |-> "search_nearby_restaurants", client |-> client, response |-> resp,
               min_rating |-> min_rating, max_price_level |-> max_price_level,
               cuisine_types |-> cuisine_types, top_k_results |-> top_k_results,
               outcome |-> SearchNearbyOutcome(client, resp, min_rating, max_price_level,
                                               cuisine_types, top_k_results)]

\* a call of fetch_restaurant_details
GwDetails ==
    \E client \in BOOLEAN, resp \in DetailResponses :
        gw' = [op |-> "fetch_restaurant_details", client |-> client, response |-> resp,
               outcome |-> FetchRestaurantDetails(client, resp)]

\* a call of find_place_from_text
GwFind ==
    \E client \in BOOLEAN, resp \in FindResponses :
        gw' = [op |-> "find_place_from_text", client |-> client, response |-> resp,
               outcome |-> FindPlaceFromText(client, resp)]

\* a call of _extract_cuisines_from_types
GwExtract ==
    \E types \in TypeLists :
        gw' = [op |-> "_extract_cuisines_from_types", types |-> types,
               outcome |-> GatewayOutcome(Returned(ExtractCuisinesFromTypes(types)), FALSE)]

\* requests arriving at the workers W for the restaurants R
Create(W, R) == \E w \in W, u \in Users, r \in R, d \in Days : CreateReceipt(w, u, r, d)
Edit(W, R) ==
    \/ \E w \in W, rid \in 1..MaxReceipts, r \in R : SaveReceipt(w, rid, r)
    \/ \E w \in W, rid \in 1..MaxReceipts : DeleteReceipt(w, rid)

\* restaurants that carry cuisine tags
TaggedRestaurants == {"r1", "r2"}

\* receipt creations for tagged restaurants served concurrently by all workers
Next ==
    \/ Create(Workers, TaggedRestaurants) /\ UNCHANGED <<gw, taskVars>>
    \/ \E w \in Workers : Ledger(w) /\ UNCHANGED <<gw, taskVars>>

Spec == Init /\ [][Next]_vars

\* one worker serving every kind of receipt request, one after the other,
\* over several days
NextSerial ==
    \/ Create({"w1"}, RestaurantIds \cup {None}) /\ UNCHANGED <<gw, taskVars>>
    \/ Edit({"w1"}, RestaurantIds \cup {None}) /\ UNCHANGED <<gw, taskVars>>
    \/ Ledger("w1") /\ UNCHANGED <<gw, taskVars>>
    \/ Tick /\ UNCHANGED <<gw, taskVars>>

SpecSerial == Init /\ [][NextSerial]_vars

\* concurrent creations with database errors injected into the ledger update
NextFault == Next \/ \E w \in Workers : DbError(w) /\ UNCHANGED <<gw, taskVars>>

SpecFault == Init /\ [][NextFault]_vars

\* one worker serving receipt creations and recommendation requests
NextRec ==
    \/ Create({"w1"}, RestaurantIds) /\ UNCHANGED <<gw, taskVars>>
    \/ Ledger("w1") /\ UNCHANGED <<gw, taskVars>>
    \/ \E u \in Users, kind \in RecommendationKinds :
          Recommend("w1", u, kind) /\ UNCHANGED <<gw, taskVars>>
    \/ RecRespond("w1") /\ UNCHANGED <<gw, taskVars>>

SpecRec == Init /\ [][NextRec]_vars


\* the state after u1 created one receipt each for r1, r2 and r4
InitRegular ==
    /\ restaurants = [r \in RegularRestaurants |->
          InitialRestaurant(r)]
    /\ receipts = {[id |-> 1, user |-> "u1", restaurant |-> "r1"],
                   [id |-> 2, user |-> "u1", restaurant |-> "r2"],
                   [id |-> 3, user |-> "u1", restaurant |-> "r4"]}
    /\ visits = {[id |-> 1, user |-> "u1", restaurant |-> "r1", visit_count |-> 1,
                  last_visit |-> 1, st |-> "ok", by |-> None, old |-> 0],
                 [id |-> 2, user |-> "u1", restaurant |-> "r2", visit_count |-> 1,
                  last_visit |-> 1, st |-> "ok", by |-> None, old |-> 0],
                 [id |-> 3, user |-> "u1", restaurant |-> "r4", visit_count |-> 1,
                  last_visit |-> 1, st |-> "ok", by |-> None, old |-> 0]}
    /\ cstats = {[id |-> 1, user |-> "u1", cuisine |-> "Italian", visit_count |-> 2,
                  st |-> "ok", by |-> None, old |-> 0],
                 [id |-> 1, user |-> "u1", cuisine |-> "Pizza", visit_count |-> 1,
                  st |-> "ok", by |-> None, old |-> 0]}
    /\ pc = [w \in Workers |-> "idle"]
    /\ req = [w \in Workers |-> IdleReq]
    /\ today = 1
    /\ nextRid = 4
    /\ edits = 0
    /\ log = [i \in 1..3 |-> [user |-> "u1", restaurant |-> <<"r1", "r2", "r4">>[i], calls |-> 1,
                              status |-> "created", failed |-> FALSE, ierr |-> FALSE,
                              tags |-> InitialRestaurant(<<"r1", "r2", "r4">>[i]).cuisines]]
    /\ rec = NoRec
    /\ gw = NoCall
    /\ queue = {}
    /\ jobs = [c \in CeleryWorkers |-> IdleJob]
    /\ runs = <<>>
    /\ nextTid = 1

\* recommendation requests of a user with three frequent locations
NextRegular ==
    \/ \E kind \in RecommendationKinds : Recommend("w1", "u1", kind) /\ UNCHANGED <<gw, taskVars>>
    \/ RecRespond("w1") /\ UNCHANGED <<gw, taskVars>>

SpecRegular == InitRegular /\ [][NextRegular]_vars

\* the places gateway called on its own, with every answer of the external service
NextGateway ==
    \/ GwSearch /\ UNCHANGED <<webVars, taskVars>>
    \/ GwDetails /\ UNCHANGED <<webVars, taskVars>>
    \/ GwFind /\ UNCHANGED <<webVars, taskVars>>
    \/ GwExtract /\ UNCHANGED <<webVars, taskVars>>

SpecGateway == Init /\ [][NextGateway]_vars

\* the places create_restaurant_from_places_data is called for
CreatedPlaceIds == {"pN"}

\* one web worker serving receipt uploads of u1 and two Celery workers
\* running the tasks
NextEnrich ==
    \/ \E input \in ReceiptInputs : SerializerCreate("w1", "u1", input, 1)
    \/ Ledger("w1") /\ UNCHANGED <<gw, taskVars>>
    \/ SerializerEnqueue("w1")
    \/ \E c \in CeleryWorkers : TaskStart(c)
    \/ \E c \in CeleryWorkers : EnrichFind(c)
    \/ \E c \in CeleryWorkers : EnrichFetch(c)
    \/ \E c \in CeleryWorkers, place_id \in CreatedPlaceIds : CrStart(c, place_id)
    \/ \E c \in CeleryWorkers : CrCreate(c)

SpecEnrich == Init /\ [][NextEnrich]_vars

\* receipt uploads and enrichment tasks, without the create task
NextUpload ==
    \/ \E input \in ReceiptInputs : SerializerCreate("w1", "u1", input, 1)
    \/ Ledger("w1") /\ UNCHANGED <<gw, taskVars>>
    \/ SerializerEnqueue("w1")
    \/ DelayUnknown
    \/ \E c \in CeleryWorkers : TaskStart(c)
    \/ \E c \in CeleryWorkers : EnrichFind(c)
    \/ \E c \in CeleryWorkers : EnrichFetch(c)

SpecUpload == Init /\ [][NextUpload]_vars

\* uploads for restaurants typed in by name, their enrichment, and
\* cuisine-match requests of the uploader
NextFirstVisit ==
    \/ \E input \in {x \in ReceiptInputs : x.restaurant_id = None} :
          SerializerCreate("w1", "u1", input, 1)
    \/ Ledger("w1") /\ UNCHANGED <<gw, taskVars>>
    \/ SerializerEnqueue("w1")
    \/ \E c \in CeleryWorkers : TaskStart(c)
    \/ \E c \in CeleryWorkers : EnrichFind(c)
    \/ \E c \in CeleryWorkers : EnrichFetch(c)
    \/ Recommend("w1", "u1", "cuisine_match") /\ UNCHANGED <<gw, taskVars>>
    \/ RecRespond("w1") /\ UNCHANGED <<gw, taskVars>>

SpecFirstVisit == Init /\ [][NextFirstVisit]_vars

\* repeated uploads for restaurants on record, with and without tags, and
\* for a restaurant typed in by name, interleaved with their enrichment
RevisitInputs ==
    ReceiptInputs \cup {[restaurant_id |-> "r1", restaurant_name |-> None, address |-> None]}

NextRevisit ==
    \/ \E input \in RevisitInputs : SerializerCreate("w1", "u1", input, 1)
    \/ Ledger("w1") /\ UNCHANGED <<gw, taskVars>>
    \/ SerializerEnqueue("w1")
    \/ \E c \in CeleryWorkers : TaskStart(c)
    \/ \E c \in CeleryWorkers : EnrichFind(c)
    \/ \E c \in CeleryWorkers : EnrichFetch(c)

SpecRevisit == Init /\ [][NextRevisit]_vars

\* receipt uploads for restaurants on record and their enrichment tasks, with
\* unexpected errors inside the task body
NextEnrichFault ==
    \/ \E input \in {i \in ReceiptInputs : i.restaurant_id # None} :
          SerializerCreate("w1", "u1", input, 1)
    \/ Ledger("w1") /\ UNCHANGED <<gw, taskVars>>
    \/ SerializerEnqueue("w1")
    \/ \E c \in CeleryWorkers : TaskStart(c)
    \/ \E c \in CeleryWorkers : EnrichFetch(c)
    \/ \E c \in CeleryWorkers : EnrichError(c)

SpecEnrichFault == Init /\ [][NextEnrichFault]_vars

----------------------------------------------------------------------------
(* Properties of the visit ledger *)

\* receipts created so far by u for restaurant r
Creations(u, r) == {i \in DOMAIN log : log[i].user = u /\ log[i].restaurant = r}

\* receipts created so far by u for a restaurant tagged with cuisine c
CuisineCreations(u, c) ==
    {i \in DOMAIN log : /\ log[i].user = u
                        /\ log[i].restaurant # None
                        /\ c \in restaurants[log[i].restaurant].cuisines}

\* a receipt creation of u is still running
Busy(u) == \E w \in Workers : pc[w] # "idle" /\ req[w].user = u

VisitCounts(u, r) == {x.visit_count : x \in {y \in Committed(visits) : y.user = u /\ y.restaurant = r}}
StatCounts(u, c) == {x.visit_count : x \in {y \in Committed(cstats) : y.user = u /\ y.cuisine = c}}

\* C1: once every receipt creation of a user has completed, the user's
\* VisitRecord of each restaurant counts exactly the receipts created for it
\* and the CuisineStat of each cuisine counts exactly the receipts created for
\* restaurants carrying that tag, whatever the interleaving was.
C1_NoLostIncrement ==
    \A u \in Users : ~Busy(u) =>
        /\ \A r \in RestaurantIds :
              VisitCounts(u, r) =
                 IF Creations(u, r) = {} THEN {} ELSE {Cardinality(Creations(u, r))}
        /\ \A c \in CuisineNames :
              StatCounts(u, c) =
                 IF CuisineCreations(u, c) = {} THEN {} ELSE {Cardinality(CuisineCreations(u, c))}

\* two creations raced on the record-creating visit and a third followed
C1_Witness ==
    \E u \in Users, r \in TaggedRestaurants :
        /\ ~Busy(u)
        /\ Cardinality(Creations(u, r)) >= 3
        /\ \E i \in Creations(u, r) : log[i].ierr
        /\ VisitCounts(u, r) = {Cardinality(Creations(u, r))}
        /\ \A c \in restaurants[r].cuisines : StatCounts(u, c) = {Cardinality(Creations(u, r))}

UniqueVisits ==
    \A x, y \in visits : (x.user = y.user /\ x.restaurant = y.restaurant) => x = y
UniqueStats ==
    \A x, y \in cstats : (x.user = y.user /\ x.cuisine = y.cuisine) => x = y

\* an INSERT attempted by w for a pair that already has a row adds no row
RejectsSecondVisit(w) ==
    (/\ pc[w] = "rv_create" /\ pc'[w] # "rv_create"
     /\ \E x \in visits : x.user = req[w].user /\ x.restaurant = req[w].restaurant)
        => (visits' = visits /\ log'[req[w].rid].ierr)
RejectsSecondStat(w) ==
    (/\ pc[w] = "cs_create" /\ pc'[w] # "cs_create"
     /\ \E x \in cstats : x.user = req[w].user /\ x.cuisine = Head(req[w].todo))
        => (cstats' = cstats /\ log'[req[w].rid].ierr)

\* C2: at every moment each table holds at most one row per (user, restaurant)
\* resp. (user, cuisine) pair, uncommitted rows included, and an attempt to
\* insert a second row for a pair is rejected with an IntegrityError.
C2_OneRecordPerPair ==
    /\ [](UniqueVisits /\ UniqueStats)
    /\ [][\A w \in Workers : RejectsSecondVisit(w) /\ RejectsSecondStat(w)]_vars

\* a creation lost the race for the first row, was rejected and incremented instead
C2_Witness ==
    \E i \in DOMAIN log :
        /\ log[i].ierr
        /\ log[i].status = "created"
        /\ VisitCounts(log[i].user, log[i].restaurant) = {Cardinality(Creations(log[i].user, log[i].restaurant))}

RowsOf(b) == <<{x \in visits : x.user = b}, {x \in cstats : x.user = b}>>

\* C3: a step of a receipt creation of user A changes no VisitRecord and no
\* CuisineStat row of any other user B.
C3_OtherUsersUntouched ==
    [][\A w \in Workers : pc'[w] # pc[w] =>
          \A b \in Users : b # req[w].user => RowsOf(b)' = RowsOf(b)]_vars

\* both users visited the same restaurant, a different number of times
C3_Witness ==
    \E r \in TaggedRestaurants :
        /\ VisitCounts("u1", r) = {2}
        /\ VisitCounts("u2", r) = {1}
        /\ \A c \in restaurants[r].cuisines : StatCounts("u1", c) = {2} /\ StatCounts("u2", c) = {1}

\* the step inserts a receipt that has no restaurant
CreatesUnlinkedReceipt == nextRid' = nextRid + 1 /\ log'[nextRid].restaurant = None

\* C4: creating a receipt without a restaurant starts no ledger update, leaves
\* both ledger tables as they were, and no ledger row without a restaurant
\* ever exists.
C4_UnlinkedReceiptInert ==
    /\ [](\A x \in visits : x.restaurant # None)
    /\ [](\A i \in DOMAIN log : log[i].restaurant = None => log[i].calls = 0)
    /\ [][CreatesUnlinkedReceipt => UNCHANGED <<visits, cstats, pc, req>>]_vars

\* a user with counted visits created a receipt without restaurant
C4_Witness ==
    \E i, j \in DOMAIN log :
        /\ j < i
        /\ log[i].user = log[j].user
        /\ log[j].restaurant # None
        /\ log[i].restaurant = None
        /\ log[i].status = "created"
        /\ VisitCounts(log[j].user, log[j].restaurant) # {}

\* the step saves or deletes an existing receipt
EditsReceipt == edits' = edits + 1

\* C5: the ledger update is invoked once for a receipt created with a
\* restaurant and never for one created without; saving an existing receipt
\* (also with a new restaurant) or deleting one invokes nothing and leaves
\* both ledger tables unchanged.
C5_LedgerOnlyAtCreation ==
    /\ [](\A i \in DOMAIN log : log[i].calls = IF log[i].restaurant # None THEN 1 ELSE 0)
    /\ [][EditsReceipt => UNCHANGED <<visits, cstats, pc, req, log>>]_vars

\* an existing receipt was saved with another restaurant than it was created with
C5_Witness ==
    \E x \in receipts :
        /\ edits > 0
        /\ x.restaurant # None
        /\ x.restaurant # log[x.id].restaurant
        /\ log[x.id].calls = IF log[x.id].restaurant # None THEN 1 ELSE 0
        /\ VisitCounts(x.user, x.restaurant) = {}

\* C6: when update_visit_stats(user, restaurant, visit_date) completes, the
\* last_visit of the pair's VisitRecord equals visit_date.
C6_LastVisitIsVisitDate ==
    [][\A w \in Workers : (pc[w] = "commit" /\ pc'[w] = "idle") =>
          \A x \in Committed(visits') :
              (x.user = req[w].user /\ x.restaurant = req[w].restaurant)
                 => x.last_visit = req[w].date]_vars

\* C7: a ledger update that fails is swallowed by the signal handler: the
\* creation reports success, no creation ever reports an error, and the
\* receipt row is there.
C7_LedgerFailureSwallowed ==
    \A i \in DOMAIN log :
        /\ log[i].status # "error"
        /\ log[i].failed => (log[i].status = "created" /\ \E x \in receipts : x.id = i)

\* a ledger update failed, its receipt was created all the same
C7_Witness ==
    \E i \in DOMAIN log :
        /\ log[i].failed
        /\ log[i].status = "created"
        /\ \E x \in receipts : x.id = i /\ x.restaurant # None
        /\ VisitCounts(log[i].user, log[i].restaurant) # {Cardinality(Creations(log[i].user, log[i].restaurant))}

----------------------------------------------------------------------------
(* Properties of the read projections *)

\* the committed visit counts of u at restaurants with both coordinates
LocatedVisits(u) ==
    {<<x.restaurant, x.visit_count>> : x \in
        {y \in Committed(visits) :
            /\ y.user = u
            /\ restaurants[y.restaurant].latitude # None
            /\ restaurants[y.restaurant].longitude # None}}

\* C8: get_user_frequent_locations(user, limit) returns a list: only of the
\* user's own VisitRecords whose restaurant has latitude and longitude, each
\* once, in descending visit count, of length min(limit, number of such
\* records), leaving out no record with a higher count than one it contains;
\* it is empty when there is no such record.
C8_FrequentLocations ==
    \A u \in Users, limit \in 0..MaxLimit :
        /\ GetUserFrequentLocations(u, limit) # {}
        /\ \A locs \in GetUserFrequentLocations(u, limit) :
              /\ Len(locs) = Min(limit, Cardinality(LocatedVisits(u)))
              /\ \A i \in 1..Len(locs) :
                    /\ <<locs[i].restaurant_name, locs[i].visit_count>> \in LocatedVisits(u)
                    /\ locs[i].latitude # None /\ locs[i].longitude # None
              /\ \A i, j \in 1..Len(locs) :
                    i < j => /\ locs[i].restaurant_name # locs[j].restaurant_name
                             /\ locs[i].visit_count >= locs[j].visit_count
              /\ \A v \in LocatedVisits(u) :
                    (\A i \in 1..Len(locs) : locs[i].restaurant_name # v[1])
                       => \A i \in 1..Len(locs) : locs[i].visit_count >= v[2]

\* a user has two located records with different counts, so that the order
\* and the cut to one entry matter
C8_Witness ==
    \E u \in Users :
        /\ \E v1, v2 \in LocatedVisits(u) : v1[2] > v2[2]
        /\ \A locs \in GetUserFrequentLocations(u, 1) : Len(locs) = 1 /\ locs[1].visit_count = 2

\* C9: get_user_top_restaurants(user, limit) returns the user's `limit` most
\* visited restaurants in descending visit count.
C9_TopRestaurantsByVisitCount ==
    \A u \in Users, limit \in 1..MaxLimit :
        \A top \in GetUserTopRestaurants(u, limit) :
            /\ \A i, j \in 1..Len(top) : i < j => top[i][2] >= top[j][2]
            /\ \A x \in Committed(visits) :
                  (x.user = u /\ \A i \in 1..Len(top) : top[i][1] # x.restaurant)
                     => \A i \in 1..Len(top) : top[i][2] >= x.visit_count

----------------------------------------------------------------------------
(* Properties of the recommendation service *)

\* C10: a recommendation request of any kind for a user without a VisitRecord
\* at a restaurant with both coordinates is answered with the empty list,
\* without error and without a single gateway search.
C10_NoLocationsNoGatewayCalls ==
    (rec # NoRec /\ LocatedVisits(rec.user) = {})
        => (rec.result = <<>> /\ rec.calls = 0 /\ ~rec.error)

\* the user has visits, all at a restaurant lacking a coordinate
C10_Witness ==
    /\ rec # NoRec
    /\ \E x \in Committed(visits) : x.user = rec.user /\ x.visit_count >= 2
    /\ LocatedVisits(rec.user) = {}
    /\ rec.calls = 0
    /\ rec.result = <<>>

----------------------------------------------------------------------------
(* Properties of the merged recommendation list *)

\* what the gateway returned for the i-th frequent location of the request
Found(i) == GetRecommendationsNearLocation(rec.responses[i], rec.kind, rec.cuisines, PerLocationLimit)

\* the frequent locations of the request whose search returned place id p
Returning(p) == {i \in 1..Len(rec.locations) : \E k \in 1..Len(Found(i)) : Found(i)[k].place_id = p}

\* the smallest index of a set of indexes
FirstOf(S) == CHOOSE i \in S : \A j \in S : i <= j

\* C11: in the list returned by a recommendation request every place id
\* occurs at most once, and the entry kept for a place id carries the rating
\* and the reference location of the first frequent location whose search
\* returned it, a location whose visit count no other returning location
\* exceeds, whatever ratings the later duplicates carry.
C11_FirstLocationWins ==
    (rec.kind # None /\ ~rec.error) =>
        /\ \A a, b \in 1..Len(rec.result) :
              rec.result[a].place_id = rec.result[b].place_id => a = b
        /\ \A a \in 1..Len(rec.result) :
              LET e == rec.result[a]
                  first == FirstOf(Returning(e.place_id)) IN
              /\ Returning(e.place_id) # {}
              /\ e.reference_location =
                    [restaurant_name |-> rec.locations[first].restaurant_name,
                     visit_count |-> rec.locations[first].visit_count]
              /\ \E k \in 1..Len(Found(first)) :
                    Found(first)[k].place_id = e.place_id /\ Found(first)[k].rating = e.rating
              /\ \A i \in Returning(e.place_id) :
                    rec.locations[i].visit_count <= rec.locations[first].visit_count

\* two frequent locations returned the place pA with different ratings, the
\* second one the higher, and the response lists it once
C11_Witness ==
    /\ rec.kind # None /\ ~rec.error
    /\ Cardinality(Returning("pA")) = 2
    /\ rec.locations[1].visit_count > rec.locations[2].visit_count
    /\ \E k \in 1..Len(Found(1)) : Found(1)[k].place_id = "pA" /\ Found(1)[k].rating = Some(48)
    /\ \E k \in 1..Len(Found(2)) : Found(2)[k].place_id = "pA" /\ Found(2)[k].rating = Some(50)
    /\ \E a \in 1..Len(rec.result) :
          rec.result[a].place_id = "pA" /\ rec.result[a].rating = Some(48)

\* the rating a candidate is to be ordered by: a missing rating counts as 0
RatingOrZero(e) == Get(e.rating, 0)

\* C12: a recommendation request never fails on a candidate without a rating,
\* and the returned list is in descending order of rating with the candidates
\* whose rating is missing ordered as rating 0, after every rated candidate.
C12_MissingRatingSortsLast ==
    rec.kind # None =>
        /\ ~rec.error
        /\ \A a, b \in 1..Len(rec.result) :
              a < b => RatingOrZero(rec.result[a]) >= RatingOrZero(rec.result[b])

\* the search for the i-th frequent location raised or returned nothing
SearchFailed(i) == ~rec.responses[i].ok \/ rec.responses[i].results = <<>>

\* the place ids the searches of the request returned
ReturnedIds == UNION {{Found(j)[k].place_id : k \in 1..Len(Found(j))} : j \in 1..Len(rec.locations)}

\* C13: when the search for one frequent location raises or returns nothing,
\* the request still searches every location and does not end in an error:
\* it answers with the candidates of the other locations, merged and cut to
\* the limit, none of them from the failed location.
C13_FailedLocationContributesNothing ==
    rec.kind # None =>
        \A i \in 1..Len(rec.locations) : SearchFailed(i) =>
            /\ rec.calls = Len(rec.locations)
            /\ ~rec.error
            /\ {rec.result[a].place_id : a \in 1..Len(rec.result)} \subseteq ReturnedIds
            /\ Len(rec.result) = Min(rec.limit, Cardinality(ReturnedIds))
            /\ \A a \in 1..Len(rec.result) :
                  rec.result[a].reference_location.restaurant_name
                     # rec.locations[i].restaurant_name

----------------------------------------------------------------------------
(* Properties of the places gateway *)

Searched == gw.op = "search_nearby_restaurants"

\* the places of the answer that meet every filter supplied with the call
MeetsFilters(place) ==
    /\ gw.min_rating # {} => Get(place.rating, 0) >= Get(gw.min_rating, 0)
    /\ gw.max_price_level # {} =>
          (place.price_level # {} /\ Get(place.price_level, 0) <= Get(gw.max_price_level, 0))
    /\ gw.cuisine_types # <<>> =>
          \E i \in 1..Len(ExtractCuisinesFromTypes(place.types)), j \in 1..Len(gw.cuisine_types) :
              IsSubstringIgnoreCase(gw.cuisine_types[j], ExtractCuisinesFromTypes(place.types)[i])
Meeting == SelectSeq(gw.response.results, MeetsFilters)

\* two or more places of which one has no rating: the sort of C12 fails
UnratedIn(places) == Len(places) >= 2 /\ \E i \in 1..Len(places) : places[i].rating = {}

GatewayCalled == gw.op \in {"search_nearby_restaurants", "fetch_restaurant_details",
                            "find_place_from_text"}

\* the empty list of search_nearby_restaurants, the None of the other two
EmptyResult == IF Searched THEN <<>> ELSE {}

\* the external service failed: an exception, an answer that is not a dict,
\* a status other than OK
ServiceFailed ==
    IF Searched THEN ~gw.response.ok ELSE gw.response.kind \in {"raise", "malformed", "status"}

\* C15: no gateway method raises to its caller; when the external service
\* fails (exception, non-OK status, malformed answer) the method returns the
\* empty list resp. None, and a gateway without a client returns that result
\* without calling the external service.
C15_GatewayNeverRaises ==
    GatewayCalled =>
        /\ ~gw.outcome.raised
        /\ ServiceFailed => gw.outcome.value = EmptyResult
        /\ ~gw.client => (gw.outcome.value = EmptyResult /\ ~gw.outcome.called)

\* the external service raised in a call of a gateway with a client, and the
\* method returned its empty result
C15_Witness ==
    /\ GatewayCalled /\ gw.client /\ gw.outcome.called
    /\ IF Searched THEN ~gw.response.ok ELSE gw.response.kind = "raise"
    /\ ~gw.outcome.raised /\ gw.outcome.value = EmptyResult

\* the specific food categories: food-related and not generic
SpecificTypes == FoodRelatedTypes \ GenericTypes

\* the labels of the specific categories of a type list, once each, in order
RECURSIVE SpecificLabelsOnly(_)
SpecificLabelsOnly(types) ==
    IF types = <<>> THEN <<>>
    ELSE LET front == SpecificLabelsOnly(SubSeq(types, 1, Len(types) - 1))
             type_name == types[Len(types)] IN
         IF type_name \in SpecificTypes /\ TypeLabel(type_name) \notin Range(front)
            THEN Append(front, TypeLabel(type_name)) ELSE front

\* C16: when the type list holds a specific food category the derived
\* cuisines are the labels of its specific categories only, without
\* "Restaurant"; when it holds no specific category but a generic one they
\* are exactly <<"Restaurant">>.
C16_GenericTagsSuppressed ==
    gw.op = "_extract_cuisines_from_types" =>
        IF \E i \in 1..Len(gw.types) : gw.types[i] \in SpecificTypes
           THEN gw.outcome.value = SpecificLabelsOnly(gw.types)
        ELSE IF \E i \in 1..Len(gw.types) : gw.types[i] \in GenericTypes
           THEN gw.outcome.value = <<"Restaurant">>
        ELSE TRUE

\* ---- Claims about the enrichment task ----

\* the runs on record, each named by its task and its attempt
RunIds == {i \in (DOMAIN runs) \X (1..(MaxRetries + 2)) : i[2] \in DOMAIN runs[i[1]]}
RunAt(i) == runs[i[1]][i[2]]

\* run j follows run i on the same restaurant: it loaded and found in the
\* database the row run i left, and the Gateway returned the same details
InSuccession(i, j) ==
    /\ i # j
    /\ RunAt(i).status = "success" /\ RunAt(j).status = "success"
    /\ RunAt(i).restaurant = RunAt(j).restaurant
    /\ ~IsStub(RunAt(j).loaded.place_id)
    /\ RunAt(j).loaded = RunAt(i).after /\ RunAt(j).before = RunAt(i).after
    /\ RunAt(j).data = RunAt(i).data

\* C17: a run that follows a successful run on a resolved restaurant, with
\* the same place details returned, reports no changed field and leaves name,
\* address, coordinates, rating and cuisines as the first run left them.
C17_SecondRunChangesNothing ==
    \A i, j \in RunIds :
        InSuccession(i, j) =>
            /\ RunAt(j).updated_fields = {}
            /\ RunAt(j).after = RunAt(i).after

\* two runs in succession, the first of which changed the restaurant
C17_Witness ==
    \E i, j \in RunIds :
        /\ InSuccession(i, j)
        /\ RunAt(i).updated_fields # {}
        /\ RunAt(i).after # RunAt(i).before

\* C18: a run in which find_place_from_text returns a place id persists it
\* as the restaurant's place_id, and no later attempt of the task calls
\* find_place_from_text again.
C18_ResolvedOnceNeverSearchedAgain ==
    \A i \in RunIds :
        RunAt(i).found # {} =>
            /\ RunAt(i).persisted = RunAt(i).found
            /\ \A j \in RunIds :
                  (j[1] = i[1] /\ j[2] > i[2]) => RunAt(j).finds = 0

\* C19: no two restaurants hold the same place_id.
C19_PlaceIdUnique ==
    \A x, y \in DOMAIN restaurants :
        x # y => restaurants[x].place_id # restaurants[y].place_id

\* two restaurants were created, one of them for a place id that a run then
\* tried to give to the other
C19_Witness ==
    /\ Cardinality(Created) = 2
    /\ \E i \in RunIds :
          /\ RunAt(i).cause = "IntegrityError"
          /\ \E r \in Created : RunAt(i).found = Some(restaurants[r].place_id)

\* what except Exception catches in the model
UnexpectedErrors == {"OperationalError", "IntegrityError"}

\* C20: attempt k of a task has retry count k - 1; an attempt that hits an
\* unexpected error is retried after 60, 120 and 240 seconds for k = 1, 2, 3
\* and returns status error with the cause for k = 4; no task has a fifth
\* attempt.
C20_RetriesBounded ==
    \A i \in RunIds :
        /\ i[2] <= 4
        /\ RunAt(i).retries = i[2] - 1
        /\ RunAt(i).status = "retry" => i[2] <= 3 /\ RunAt(i).countdown = <<60, 120, 240>>[i[2]]
        /\ RunAt(i).cause \in UnexpectedErrors =>
              IF i[2] <= 3 THEN RunAt(i).status = "retry"
              ELSE RunAt(i).status = "error"

\* a task whose four attempts all hit an unexpected error
C20_Witness ==
    \E t \in DOMAIN runs :
        /\ Len(runs[t]) = 4
        /\ \A k \in 1..4 : runs[t][k].cause \in UnexpectedErrors
        /\ runs[t][4].status = "error"

\* the task of run i is over: no message of it is queued, no worker runs it
\* and i is its last attempt
Finished(i) ==
    /\ i[2] = Len(runs[i[1]])
    /\ \A m \in queue : m.tid # i[1]
    /\ \A c \in CeleryWorkers : jobs[c].pc \in {"find", "fetch"} => jobs[c].tid # i[1]

\* the run was given an id that is not on record
IdMissing(i) == RunAt(i).restaurant \notin DOMAIN restaurants

\* the run searched for the place of a stub and got no candidate
NoCandidate(i) == RunAt(i).finds = 1 /\ RunAt(i).found = {}

\* C21: a run for an id that is not on record, or for a stub whose text
\* search finds no candidate, returns status error, is not retried, and
\* leaves the restaurant as it was.
C21_NotFoundIsFinal ==
    \A i \in RunIds :
        (IdMissing(i) \/ NoCandidate(i)) =>
            /\ RunAt(i).status = "error"
            /\ Finished(i)
            /\ RunAt(i).after = RunAt(i).before

\* both cases happened
C21_Witness ==
    /\ \E i \in RunIds : IdMissing(i)
    /\ \E i \in RunIds : NoCandidate(i) /\ IsStub(RunAt(i).before.place_id)

\* name, address, coordinates, rating and cuisines of a row
Details(row) == [row EXCEPT !.place_id = None]

\* the run asked for the place details and got none
DetailsNotFound(i) == RunAt(i).fetches = 1 /\ RunAt(i).fetched = {}

\* C22: a run whose fetch of the place details returns nothing returns
\* status error with a message, is not retried, and leaves name, address,
\* coordinates, rating and cuisines as they were.
C22_FetchFailureChangesNothing ==
    \A i \in RunIds :
        DetailsNotFound(i) =>
            /\ RunAt(i).status = "error"
            /\ RunAt(i).cause = "Failed to fetch data from Google Places API"
            /\ Finished(i)
            /\ Details(RunAt(i).after) = Details(RunAt(i).before)
            /\ Details(RunAt(i).after) = Details(RunAt(i).loaded)
               \/ \E j \in RunIds : /\ j # i
                                    /\ RunAt(j).restaurant = RunAt(i).restaurant
                                    /\ RunAt(j).status = "success"

\* the place details were not found for a restaurant on record and for a
\* stub whose place id had just been resolved
C22_Witness ==
    /\ \E i \in RunIds : DetailsNotFound(i) /\ RunAt(i).finds = 0
    /\ \E i \in RunIds : DetailsNotFound(i) /\ RunAt(i).finds = 1

\* the values of a row and of the details received, field by field
StoredValues(row) ==
    [name |-> Nullable(row.name), address |-> Nullable(row.address),
     latitude |-> Nullable(row.latitude), longitude |-> Nullable(row.longitude),
     rating |-> row.rating, cuisines |-> row.cuisines]
FetchedValues(data) ==
    [name |-> data.name, address |-> data.address, latitude |-> data.latitude,
     longitude |-> data.longitude, rating |-> data.rating, cuisines |-> Range(data.cuisines)]

\* C23: a successful run leaves every field with the fetched value and
\* reports exactly the fields whose fetched value differed from the stored
\* one.
C23_OverwrittenExactlyWhenDifferent ==
    \A i \in RunIds :
        RunAt(i).status = "success" =>
            LET fetched == FetchedValues(Get(RunAt(i).data, NormalizedDetails(NoDetails)))
                stored == StoredValues(RunAt(i).before) IN
            /\ StoredValues(RunAt(i).after) = fetched
            /\ RunAt(i).updated_fields = {f \in DOMAIN fetched : fetched[f] # stored[f]}

\* the run received place details and failed while it persisted them
FailedPersisting(i) ==
    /\ RunAt(i).fetches = 1 /\ RunAt(i).fetched # {}
    /\ RunAt(i).cause \in UnexpectedErrors

\* C24: a run that fails while it persists its changes leaves the restaurant,
\* cuisines included, as it was.
C24_UpdateAllOrNothing ==
    \A i \in RunIds :
        FailedPersisting(i) =>
            /\ RunAt(i).status \in {"retry", "error"}
            /\ RunAt(i).after = RunAt(i).before

\* a run failed after it had set a name and cuisines that differ from the
\* stored ones
C24_Witness ==
    \E i \in RunIds :
        /\ FailedPersisting(i)
        /\ LET fetched == FetchedValues(Get(RunAt(i).fetched, NormalizedDetails(NoDetails))) IN
           /\ fetched.cuisines # {} /\ fetched.cuisines # RunAt(i).before.cuisines
           /\ fetched.name # {} /\ fetched.name # Some(RunAt(i).before.name)

\* the runs on restaurant r, and r is quiet when no task for it is queued
\* or running
RunsOn(r) == {i \in RunIds : RunAt(i).restaurant = r}
Quiet(r) ==
    /\ \A m \in queue : m.restaurant # r
    /\ \A c \in CeleryWorkers : jobs[c].pc \in {"find", "fetch"} => jobs[c].restaurant # r

\* every run on r got the same answers from Google Places
SameUpstream(r) ==
    \A i, j \in RunsOn(r) :
        /\ (RunAt(i).finds = 1 /\ RunAt(j).finds = 1) => RunAt(i).found = RunAt(j).found
        /\ (RunAt(i).fetches = 1 /\ RunAt(j).fetches = 1) => RunAt(i).fetched = RunAt(j).fetched

\* what one run alone makes of the row it loads, given the details
SingleRunResult(original, place_id, data) ==
    [place_id |-> place_id,
     name |-> IF data.name = {} THEN original.name ELSE Get(data.name, None),
     address |-> IF data.address = {} THEN original.address ELSE Get(data.address, None),
     latitude |-> IF data.latitude = {} THEN original.latitude ELSE Get(data.latitude, None),
     longitude |-> IF data.longitude = {} THEN original.longitude ELSE Get(data.longitude, None),
     rating |-> IF data.rating = {} THEN original.rating ELSE data.rating,
     cuisines |-> IF data.cuisines = <<>> THEN original.cuisines ELSE Range(data.cuisines)]

\* C25: when the runs on one restaurant all got the same answers and are all
\* over, one of them with success, the restaurant is what a single run would
\* have made of the row the first of them loaded.
C25_ConcurrentRunsAsOne ==
    \A r \in DOMAIN restaurants :
        (Quiet(r) /\ SameUpstream(r)) =>
            \A i \in RunsOn(r) :
                (RunAt(i).status = "success" /\ i[2] = 1) =>
                    \E j \in RunsOn(r) :
                        restaurants[r] =
                            SingleRunResult(RunAt(j).loaded, RunAt(i).after.place_id,
                                            Get(RunAt(i).fetched, NormalizedDetails(NoDetails)))

\* two runs that both loaded the stub before either resolved it both
\* succeeded and changed the row
C25_Witness ==
    \E r \in DOMAIN restaurants :
        /\ Quiet(r) /\ SameUpstream(r)
        /\ \E i, j \in RunsOn(r) :
              /\ i # j
              /\ RunAt(i).status = "success" /\ RunAt(j).status = "success"
              /\ RunAt(i).loaded = RunAt(j).loaded
              /\ RunAt(i).after # RunAt(i).loaded
              /\ RunAt(i).finds = 1 /\ RunAt(j).finds = 1

\* the tasks enqueued so far with restaurant id r: waiting, running or run
TasksFor(r) ==
    {m.tid : m \in {x \in queue : x.restaurant = r}}
        \cup {jobs[c].tid : c \in {x \in CeleryWorkers :
                                      jobs[x].pc \in {"find", "fetch"} /\ jobs[x].restaurant = r}}
        \cup {t \in DOMAIN runs : runs[t][1].restaurant = r}

\* C26: once a receipt upload has returned, every restaurant has been
\* enqueued for enrichment once per receipt created for it.
C26_EnqueuedOncePerReceipt ==
    pc["w1"] = "idle" =>
        \A r \in DOMAIN restaurants :
            Cardinality(TasksFor(r)) = Cardinality({x \in receipts : x.restaurant = r})

\* C27: a cuisine-match request of a user who has frequent locations but
\* no cuisine statistics returns the empty list without any gateway search.
C27_NoCuisineStatsNoSearch ==
    (/\ rec # NoRec
     /\ rec.kind = "cuisine_match"
     /\ rec.locations # <<>>
     /\ rec.cuisines = <<>>) =>
        /\ rec.result = <<>>
        /\ rec.calls = 0
        /\ ~rec.error

\* such a request was served, with a gateway that had places to offer
C27_Witness ==
    /\ rec # NoRec
    /\ rec.kind = "cuisine_match"
    /\ rec.locations # <<>>
    /\ rec.cuisines = <<>>
    /\ \E i \in 1..Len(rec.locations) : rec.responses[i].results # <<>>

\* the ledger updates that committed: of user u for restaurant r, and of u
\* for a restaurant carrying cuisine c
Recorded(u, r) ==
    {i \in Creations(u, r) : log[i].status = "created" /\ ~log[i].failed}
RecordedWith(u, c) ==
    {i \in DOMAIN log : /\ log[i].user = u /\ log[i].restaurant # None
                        /\ log[i].status = "created" /\ ~log[i].failed
                        /\ c \in restaurants[log[i].restaurant].cuisines}

AsCount(n) == IF n = 0 THEN {} ELSE {n}

\* C28: a ledger update takes effect as a whole or not at all: the committed
\* visit count of a pair counts exactly the updates that committed, and the
\* committed count of a cuisine exactly the committed updates for restaurants
\* carrying it; an update that failed has added to neither.
C28_VisitRecordedAllOrNothing ==
    \A u \in Users :
        /\ \A r \in RestaurantIds : VisitCounts(u, r) = AsCount(Cardinality(Recorded(u, r)))
        /\ \A c \in Range(CuisineList) : StatCounts(u, c) = AsCount(Cardinality(RecordedWith(u, c)))

\* of two updates of one user for a restaurant with two cuisines one failed
\* and one committed
C28_Witness ==
    \E i, j \in DOMAIN log :
        /\ log[i].failed /\ log[i].status = "created"
        /\ j \in Recorded(log[i].user, log[i].restaurant)
        /\ Cardinality(restaurants[log[i].restaurant].cuisines) = 2
        /\ VisitCounts(log[i].user, log[i].restaurant) = {1}
        /\ \A c \in restaurants[log[i].restaurant].cuisines : StatCounts(log[i].user, c) = {1}

\* the committed ledger updates of u made while the restaurant carried c
RecordedWhileTagged(u, c) ==
    {i \in DOMAIN log : /\ log[i].user = u
                        /\ log[i].status = "created" /\ ~log[i].failed
                        /\ c \in log[i].tags}

\* C29: for every user and cuisine the committed CuisineStat counts exactly
\* the user's recorded visits made while the visited restaurant carried the
\* cuisine, and a step that changes a restaurant changes no CuisineStat.
C29_CreditedAsTaggedAtVisit ==
    /\ [](\A u \in Users, c \in Range(CuisineList) :
            StatCounts(u, c) = AsCount(Cardinality(RecordedWhileTagged(u, c))))
    /\ [][restaurants' # restaurants => cstats' = cstats]_vars

\* two recorded visits to one restaurant, whose enrichment in between took a
\* tag away: the tag keeps its one credit
C29_Witness ==
    \E i, j \in DOMAIN log, c \in Range(CuisineList) :
        /\ i < j
        /\ log[i].restaurant = log[j].restaurant
        /\ log[i].status = "created" /\ log[j].status = "created"
        /\ c \in log[i].tags /\ c \notin log[j].tags
        /\ log[j].tags # {}
        /\ StatCounts(log[i].user, c) = {1}

\* the run of a stub was answered with a place id that another restaurant holds
FoundHeldId(i) ==
    /\ RunAt(i).finds = 1
    /\ \E x \in DOMAIN restaurants \ {RunAt(i).restaurant} :
          RunAt(i).found = Some(restaurants[x].place_id)

\* every attempt of the task of run i was answered so
AlwaysFoundHeldId(i) == \A j \in RunIds : j[1] = i[1] => FoundHeldId(j)

====
